---- MODULE Spec2Model ----
(***************************************************************************)
(* merge_markdown.py: merge_markdown_files() reads config.json, walks the  *)
(* `chapters` manifest in order and concatenates the files of content/     *)
(* into merged_output.md, counting successes, missing files and errors.    *)
(*                                                                         *)
(* The state is the file system the script sees (content directory,        *)
(* configuration document, content files, output file), the script's local *)
(* variables, what it printed, and how the process ended.                  *)
(***************************************************************************)
EXTENDS Integers, Sequences, FiniteSets, TLC

VARIABLES
    dirExists,      \* os.path.exists('content')
    cfg,            \* the configuration document config.json
    fs,             \* content/<name> for every name of Files
    now,            \* the wall clock read by datetime.now()
    outExists,      \* merged_output.md exists
    outFile,        \* its content: the sequence of strings written to it
    outOpen,        \* the handle output_file is open
    outOpened,      \* this run has executed open(output_path, 'w')
    outAtStart,     \* <<outExists, outFile>> when the run started
    pc,             \* position of the run in merge_markdown_files
    render_order,   \* local: config.get('chapters', [])
    index,          \* local: the 1-based index of enumerate(render_order, 1)
    countersBound,  \* the three counters have been assigned (lines 61-63)
    success_count,
    missing_count,
    error_count,
    readLog,        \* every open() of a content file: <<index, filename, encoding>>
    stdout,         \* the lines printed
    raised,         \* the exception that left merge_markdown_files, or "none"
    exitStatus,     \* the exit status of the process, -1 while it runs
    run             \* which run of the script this is

vars == <<dirExists, cfg, fs, now, outExists, outFile, outOpen, outOpened,
          outAtStart, pc, render_order, index, countersBound, success_count,
          missing_count, error_count, readLog, stdout, raised, exitStatus, run>>

envVars == <<dirExists, cfg, fs, now, run, outAtStart>>
outVars == <<outExists, outFile, outOpen, outOpened>>
cntVars == <<countersBound, success_count, missing_count, error_count>>

----------------------------------------------------------------------------
(* Bounds of the model. *)

MaxChapters == 2        \* longest manifest
FirstRunChapters == 1   \* longest manifest of the first of two runs

----------------------------------------------------------------------------
(* The inputs. *)

Files == {"a.md", "b.md"}

\* A manifest entry that is not a string (JSON number, null, list, ...).
NotAString == "<number>"

Entries == Files \cup {NotAString}

\* A key that the JSON object does not hold.
NoKey == "<absent>"

Whitespace == {"SP", "NL"}

\* What content/<name> is: its kind decides how the reads end, raw is its text.
FileStates ==
    { [kind |-> "absent",     raw |-> <<>>],
      [kind |-> "utf8",       raw |-> <<"SP", "Hello", "NL">>],
      [kind |-> "gbk",        raw |-> <<"Nihao", "SP", "Zaijian", "NL">>],
      [kind |-> "binary",     raw |-> <<>>],
      [kind |-> "unreadable", raw |-> <<>>] }

AbsentFile == [kind |-> "absent", raw |-> <<>>]

SiteInfos ==
    { [shape |-> "string", title |-> NoKey, subtitle |-> NoKey, other |-> NoKey,
       author |-> NoKey, url |-> NoKey],
      [shape |-> "object", title |-> NoKey, subtitle |-> NoKey, other |-> NoKey,
       author |-> NoKey, url |-> NoKey],
      [shape |-> "object", title |-> "Fili", subtitle |-> NoKey, other |-> "note",
       author |-> NoKey, url |-> NoKey] }

DefaultSiteInfo ==
    [shape |-> "object", title |-> NoKey, subtitle |-> NoKey, other |-> NoKey,
     author |-> NoKey, url |-> NoKey]

SeqsUpTo(S, n) == UNION { [1..k -> S] : k \in 0..n }

\* config.json: absent, not JSON, not UTF-8, JSON whose top level is no object,
\* an object whose chapters is a number, an object without chapters, or an
\* object with a chapters list.
Configs(n) ==
    { [kind |-> k, chapters |-> <<>>, siteInfo |-> DefaultSiteInfo] :
        k \in {"missing", "malformed", "notutf8", "array", "chapters_number"} }
    \cup
    { [kind |-> "no_chapters", chapters |-> <<>>, siteInfo |-> s] : s \in SiteInfos }
    \cup
    { [kind |-> "ok", chapters |-> c, siteInfo |-> s] :
        c \in SeqsUpTo(Entries, n), s \in SiteInfos }

\* The content directory: absent (and then no file of it exists), or present.
Environments ==
    { [dir |-> FALSE, files |-> [f \in Files |-> AbsentFile]] }
    \cup
    { [dir |-> TRUE, files |-> t] : t \in [Files -> FileStates] }

\* What merged_output.md may hold before the first run.
StaleOutput == << [k |-> "stale", i |-> 0, f |-> "", t |-> <<>>] >>

----------------------------------------------------------------------------
(* The strings written to the output file, one record per write(). *)

W(k, i, f, t) == [k |-> k, i |-> i, f |-> f, t |-> t]

\* "\n\n---\n\n"
Rule == W("rule", 0, "", <<>>)

\* dict.get(key, default)
Get(value, default) == IF value = NoKey THEN default ELSE value

\* str.strip(): drop leading and trailing whitespace
RECURSIVE LStrip(_)
LStrip(s) ==
    IF s # <<>> /\ Head(s) \in Whitespace THEN LStrip(Tail(s)) ELSE s

RECURSIVE RStrip(_)
RStrip(s) ==
    IF s # <<>> /\ s[Len(s)] \in Whitespace
    THEN RStrip(SubSeq(s, 1, Len(s) - 1)) ELSE s

Strip(s) == RStrip(LStrip(s))

\* Lines 49-58: the header block.
Header(site_info, clock) ==
    << W("title", 0, "", <<Get(site_info.title, "Untitled")>>),
       W("subtitle", 0, "", <<Get(site_info.subtitle, "")>>) >>
    \o (IF Get(site_info.other, "") # ""
        THEN << W("other", 0, "", <<site_info.other>>) >> ELSE <<>>)
    \o << W("author", 0, "", <<Get(site_info.author, "Unknown")>>),
          W("url", 0, "", <<Get(site_info.url, "")>>),
          W("generated", clock, "", <<>>),
          W("banner", 0, "", <<>>) >>

\* Lines 74-76: the placeholder of a missing file.
MissingSection(filename) ==
    << Rule, W("missing_heading", 0, filename, <<>>), W("missing_note", 0, "", <<>>) >>

\* Lines 86-91 and 101-104: rule, provenance comment, content, blank lines.
ContentSection(idx, filename, content) ==
    << Rule, W("comment", idx, filename, <<>>), W("content", 0, "", content),
       W("blank", 0, "", <<>>) >>

\* Lines 113-115: the placeholder of a file that could not be read.
ErrorSection(filename, e) ==
    << Rule, W("error_heading", 0, filename, <<>>), W("error_note", 0, "", <<e>>) >>

\* open(output_path, 'a') instead of 'w': the old content is kept.
OpenForAppend(old) == old

\* Line 47: open(output_path, 'w') truncates.
OpenForWrite(old) == <<>>

\* A printed line.
P(m, i, f) == [m |-> m, i |-> i, f |-> f]

----------------------------------------------------------------------------
(* The run. *)

StartOfRun(env, c, out) ==
    /\ dirExists = env.dir
    /\ fs = env.files
    /\ cfg = c
    /\ outExists = out[1]
    /\ outFile = out[2]
    /\ outAtStart = out
    /\ outOpen = FALSE
    /\ outOpened = FALSE
    /\ pc = "start"
    /\ render_order = <<>>
    /\ index = 0
    /\ countersBound = FALSE
    /\ success_count = 0
    /\ missing_count = 0
    /\ error_count = 0
    /\ readLog = <<>>
    /\ stdout = <<>>
    /\ raised = "none"
    /\ exitStatus = -1

Init ==
    /\ run = 1
    /\ now = 1
    /\ \E env \in Environments, c \in Configs(MaxChapters),
          out \in {<<FALSE, <<>>>>, <<TRUE, StaleOutput>>} :
            StartOfRun(env, c, out)

\* return: the script ends, the interpreter exits with status 0.
Return(lines) ==
    /\ pc' = "exited"
    /\ exitStatus' = 0
    /\ stdout' = stdout \o lines
    /\ UNCHANGED raised

\* An exception nothing catches: traceback, exit status 1.
Raise(exc) ==
    /\ pc' = "exited"
    /\ exitStatus' = 1
    /\ raised' = exc
    /\ UNCHANGED stdout

localVars == <<render_order, index, readLog>>

\* Lines 21-23.
ContentDirMissing ==
    /\ pc = "start"
    /\ ~dirExists
    /\ Return(<<P("error_no_content_dir", 0, "")>>)
    /\ UNCHANGED <<envVars, outVars, cntVars, localVars>>

ContentDirFound ==
    /\ pc = "start"
    /\ dirExists
    /\ pc' = "config"
    /\ UNCHANGED <<envVars, outVars, cntVars, localVars, stdout, raised, exitStatus>>

\* Lines 26-31: open('config.json') raises FileNotFoundError.
ConfigMissing ==
    /\ pc = "config"
    /\ cfg.kind = "missing"
    /\ Return(<<P("error_no_config", 0, "")>>)
    /\ UNCHANGED <<envVars, outVars, cntVars, localVars>>

\* Lines 26-34: json.load raises JSONDecodeError.
ConfigMalformed ==
    /\ pc = "config"
    /\ cfg.kind = "malformed"
    /\ Return(<<P("error_bad_config", 0, "")>>)
    /\ UNCHANGED <<envVars, outVars, cntVars, localVars>>

\* Lines 26-34: f.read() inside json.load raises UnicodeDecodeError, which is
\* neither FileNotFoundError nor JSONDecodeError.
ConfigNotUtf8 ==
    /\ pc = "config"
    /\ cfg.kind = "notutf8"
    /\ Raise("UnicodeDecodeError")
    /\ UNCHANGED <<envVars, outVars, cntVars, localVars>>

ConfigLoaded ==
    /\ pc = "config"
    /\ cfg.kind \in {"array", "chapters_number", "no_chapters", "ok"}
    /\ pc' = "chapters"
    /\ UNCHANGED <<envVars, outVars, cntVars, localVars, stdout, raised, exitStatus>>

\* Line 37: config.get on a list (str, number, ...) raises AttributeError.
ConfigNotObject ==
    /\ pc = "chapters"
    /\ cfg.kind = "array"
    /\ Raise("AttributeError")
    /\ UNCHANGED <<envVars, outVars, cntVars, localVars>>

\* The chapters check made only after the output file was opened.
ChaptersEmptyAfterOpen ==
    /\ pc = "chapters"
    /\ cfg.kind \in {"no_chapters", "ok"}
    /\ cfg.chapters = <<>>
    /\ outExists' = TRUE
    /\ outFile' = <<>>
    /\ outOpened' = TRUE
    /\ Return(<<P("warning_chapters_empty", 0, "")>>)
    /\ UNCHANGED <<envVars, outOpen, cntVars, localVars>>

\* Lines 37-40: chapters absent or empty.
ChaptersEmpty ==
    /\ pc = "chapters"
    /\ cfg.kind \in {"no_chapters", "ok"}
    /\ cfg.chapters = <<>>
    /\ Return(<<P("warning_chapters_empty", 0, "")>>)
    /\ UNCHANGED <<envVars, outVars, cntVars, localVars>>

\* Lines 37-45: chapters is a non-zero number: truthy, and len() of it raises
\* TypeError in the print of line 45.
ChaptersNotSized ==
    /\ pc = "chapters"
    /\ cfg.kind = "chapters_number"
    /\ Raise("TypeError")
    /\ UNCHANGED <<envVars, outVars, cntVars, localVars>>

\* Lines 37-45.
ChaptersFound ==
    /\ pc = "chapters"
    /\ cfg.kind = "ok"
    /\ cfg.chapters # <<>>
    /\ render_order' = cfg.chapters
    /\ stdout' = stdout \o <<P("start", Len(cfg.chapters), "")>>
    /\ pc' = "open"
    /\ UNCHANGED <<envVars, outVars, cntVars, index, readLog, raised, exitStatus>>

\* Line 47.
OpenOutput ==
    /\ pc = "open"
    /\ outExists' = TRUE
    /\ outFile' = OpenForWrite(outFile)
    /\ outOpen' = TRUE
    /\ outOpened' = TRUE
    /\ pc' = "header"
    /\ UNCHANGED <<envVars, cntVars, localVars, stdout, raised, exitStatus>>

\* Line 49: site_info.get on a str raises AttributeError; the with statement
\* closes the output file on the way out.
SiteInfoNotObject ==
    /\ pc = "header"
    /\ cfg.siteInfo.shape # "object"
    /\ outOpen' = FALSE
    /\ Raise("AttributeError")
    /\ UNCHANGED <<envVars, outExists, outFile, outOpened, cntVars, localVars>>

\* Lines 49-63.
WriteHeader ==
    /\ pc = "header"
    /\ cfg.siteInfo.shape = "object"
    /\ outFile' = outFile \o Header(cfg.siteInfo, now)
    /\ countersBound' = TRUE
    /\ success_count' = 0
    /\ missing_count' = 0
    /\ error_count' = 0
    /\ index' = 1
    /\ pc' = "loop"
    /\ UNCHANGED <<envVars, outExists, outOpen, outOpened, render_order, readLog,
                   stdout, raised, exitStatus>>

\* The manifest entry of this iteration.
filename == render_order[index]

InLoop == pc = "loop" /\ index <= Len(render_order)

\* Line 67: os.path.join('content', filename) raises TypeError for an entry
\* that is not a string; the with statement closes the output file.
EntryNotString ==
    /\ InLoop
    /\ filename \notin Files
    /\ outOpen' = FALSE
    /\ Raise("TypeError")
    /\ UNCHANGED <<envVars, outExists, outFile, outOpened, cntVars, localVars>>

\* A missing file counted as an error.
EntryMissingAsError ==
    /\ InLoop
    /\ filename \in Files
    /\ fs[filename].kind = "absent"
    /\ stdout' = stdout \o <<P("process", index, filename), P("skip_missing", 0, "")>>
    /\ outFile' = outFile \o MissingSection(filename)
    /\ error_count' = error_count + 1
    /\ index' = index + 1
    /\ UNCHANGED <<envVars, outExists, outOpen, outOpened, countersBound,
                   success_count, missing_count, render_order, readLog, pc,
                   raised, exitStatus>>

\* Lines 67-78: the file does not exist.
EntryMissing ==
    /\ InLoop
    /\ filename \in Files
    /\ fs[filename].kind = "absent"
    /\ stdout' = stdout \o <<P("process", index, filename), P("skip_missing", 0, "")>>
    /\ outFile' = outFile \o MissingSection(filename)
    /\ missing_count' = missing_count + 1
    /\ index' = index + 1
    /\ UNCHANGED <<envVars, outExists, outOpen, outOpened, countersBound,
                   success_count, error_count, render_order, readLog, pc,
                   raised, exitStatus>>

\* Lines 67-94: the file decodes as UTF-8.
ReadUtf8Ok ==
    /\ InLoop
    /\ filename \in Files
    /\ fs[filename].kind = "utf8"
    /\ stdout' = stdout \o <<P("process", index, filename), P("ok", 0, "")>>
    /\ readLog' = Append(readLog, <<index, filename, "utf-8">>)
    /\ outFile' = outFile \o ContentSection(index, filename, Strip(fs[filename].raw))
    /\ success_count' = success_count + 1
    /\ index' = index + 1
    /\ UNCHANGED <<envVars, outExists, outOpen, outOpened, countersBound,
                   missing_count, error_count, render_order, pc, raised, exitStatus>>

\* Lines 67-83, 96-97: f.read() raises UnicodeDecodeError before anything is
\* written.
ReadUtf8DecodeError ==
    /\ InLoop
    /\ filename \in Files
    /\ fs[filename].kind \in {"gbk", "binary"}
    /\ stdout' = stdout \o <<P("process", index, filename), P("encoding_error", 0, "")>>
    /\ readLog' = Append(readLog, <<index, filename, "utf-8">>)
    /\ pc' = "gbk"
    /\ UNCHANGED <<envVars, outVars, cntVars, render_order, index, raised, exitStatus>>

\* No generic handler: the exception of the read leaves the function.
ReadUtf8OtherErrorRaises ==
    /\ InLoop
    /\ filename \in Files
    /\ fs[filename].kind = "unreadable"
    /\ readLog' = Append(readLog, <<index, filename, "utf-8">>)
    /\ outOpen' = FALSE
    /\ Raise("OSError")
    /\ UNCHANGED <<envVars, outExists, outFile, outOpened, cntVars, render_order, index>>

\* Lines 67-83, 111-116: open() or read() raises another exception.
ReadUtf8OtherError ==
    /\ InLoop
    /\ filename \in Files
    /\ fs[filename].kind = "unreadable"
    /\ stdout' = stdout \o <<P("process", index, filename), P("read_failed", 0, "")>>
    /\ readLog' = Append(readLog, <<index, filename, "utf-8">>)
    /\ outFile' = outFile \o ErrorSection(filename, "OSError")
    /\ error_count' = error_count + 1
    /\ index' = index + 1
    /\ UNCHANGED <<envVars, outExists, outOpen, outOpened, countersBound,
                   success_count, missing_count, render_order, pc, raised, exitStatus>>

\* The provenance comment numbered by the successes so far.
ReadGbkOkSuccessIndex ==
    /\ pc = "gbk"
    /\ fs[filename].kind = "gbk"
    /\ stdout' = stdout \o <<P("ok_gbk", 0, "")>>
    /\ readLog' = Append(readLog, <<index, filename, "gbk">>)
    /\ outFile' = outFile \o ContentSection(success_count + 1, filename,
                                            Strip(fs[filename].raw))
    /\ success_count' = success_count + 1
    /\ index' = index + 1
    /\ pc' = "loop"
    /\ UNCHANGED <<envVars, outExists, outOpen, outOpened, countersBound,
                   missing_count, error_count, render_order, raised, exitStatus>>

\* Lines 98-106: the file decodes as GBK.
ReadGbkOk ==
    /\ pc = "gbk"
    /\ fs[filename].kind = "gbk"
    /\ stdout' = stdout \o <<P("ok_gbk", 0, "")>>
    /\ readLog' = Append(readLog, <<index, filename, "gbk">>)
    /\ outFile' = outFile \o ContentSection(index, filename, Strip(fs[filename].raw))
    /\ success_count' = success_count + 1
    /\ index' = index + 1
    /\ pc' = "loop"
    /\ UNCHANGED <<envVars, outExists, outOpen, outOpened, countersBound,
                   missing_count, error_count, render_order, raised, exitStatus>>

\* The inner handler writing the error placeholder of the outer one.
ReadGbkFailWritesSection ==
    /\ pc = "gbk"
    /\ fs[filename].kind = "binary"
    /\ stdout' = stdout \o <<P("read_failed", 0, "")>>
    /\ readLog' = Append(readLog, <<index, filename, "gbk">>)
    /\ outFile' = outFile \o ErrorSection(filename, "UnicodeDecodeError")
    /\ error_count' = error_count + 1
    /\ index' = index + 1
    /\ pc' = "loop"
    /\ UNCHANGED <<envVars, outExists, outOpen, outOpened, countersBound,
                   success_count, missing_count, render_order, raised, exitStatus>>

\* The inner handler forgetting to count the error.
ReadGbkFailUncounted ==
    /\ pc = "gbk"
    /\ fs[filename].kind = "binary"
    /\ stdout' = stdout \o <<P("read_failed", 0, "")>>
    /\ readLog' = Append(readLog, <<index, filename, "gbk">>)
    /\ index' = index + 1
    /\ pc' = "loop"
    /\ UNCHANGED <<envVars, outVars, cntVars, render_order, raised, exitStatus>>

\* Lines 98-100, 107-109: the GBK read fails too.
ReadGbkFail ==
    /\ pc = "gbk"
    /\ fs[filename].kind = "binary"
    /\ stdout' = stdout \o <<P("read_failed", 0, "")>>
    /\ readLog' = Append(readLog, <<index, filename, "gbk">>)
    /\ error_count' = error_count + 1
    /\ index' = index + 1
    /\ pc' = "loop"
    /\ UNCHANGED <<envVars, outVars, countersBound, success_count, missing_count,
                   render_order, raised, exitStatus>>

\* Lines 66, 117: the manifest is exhausted, the with statement closes the
\* output file.
LoopExit ==
    /\ pc = "loop"
    /\ index > Len(render_order)
    /\ outOpen' = FALSE
    /\ pc' = "summary"
    /\ UNCHANGED <<envVars, outExists, outFile, outOpened, cntVars, localVars,
                   stdout, raised, exitStatus>>

\* Lines 120-128, then the end of the script.
PrintSummary ==
    /\ pc = "summary"
    /\ Return(<< P("summary_total", Len(render_order), ""),
                 P("summary_success", success_count, ""),
                 P("summary_missing", missing_count, ""),
                 P("summary_error", error_count, ""),
                 P("summary_output", 0, "merged_output.md") >>)
    /\ UNCHANGED <<envVars, outVars, cntVars, localVars>>

\* What one run leaves in merged_output.md when no such file existed before:
\* the sections of the entries from position i on (lines 66-116) ...
RECURSIVE SectionsFrom(_, _, _)
SectionsFrom(order, files, i) ==
    IF i > Len(order) \/ order[i] \notin Files THEN <<>>
    ELSE LET name == order[i]
             kind == files[name].kind
             section ==
                 CASE kind = "absent" -> MissingSection(name)
                   [] kind \in {"utf8", "gbk"} ->
                         ContentSection(i, name, Strip(files[name].raw))
                   [] kind = "binary" -> <<>>
                   [] kind = "unreadable" -> ErrorSection(name, "OSError")
         IN section \o SectionsFrom(order, files, i + 1)

\* ... the checks that lead to line 47 ...
ReachesOpen(dir, c) == dir /\ c.kind = "ok" /\ c.chapters # <<>>

\* ... and the whole file, <<exists, content>>.
FreshOutput(dir, c, files, clock) ==
    IF ~ReachesOpen(dir, c) THEN <<FALSE, <<>>>>
    ELSE IF c.siteInfo.shape # "object" THEN <<TRUE, <<>>>>
    ELSE <<TRUE, Header(c.siteInfo, clock) \o SectionsFrom(c.chapters, files, 1)>>

\* The script is started again: a new process, the files as the last run and
\* its user left them, the clock later.
RunAgain ==
    /\ pc = "exited"
    /\ run = 1
    /\ run' = run + 1
    /\ now' = now + 1
    /\ \E env \in Environments, c \in Configs(MaxChapters) :
        /\ dirExists' = env.dir
        /\ fs' = env.files
        /\ cfg' = c
    /\ outAtStart' = <<outExists, outFile>>
    /\ outOpened' = FALSE
    /\ pc' = "start"
    /\ render_order' = <<>>
    /\ index' = 0
    /\ countersBound' = FALSE
    /\ success_count' = 0
    /\ missing_count' = 0
    /\ error_count' = 0
    /\ readLog' = <<>>
    /\ stdout' = <<>>
    /\ raised' = "none"
    /\ exitStatus' = -1
    /\ UNCHANGED <<outExists, outFile, outOpen>>

Next ==
    \/ ContentDirMissing
    \/ ContentDirFound
    \/ ConfigMissing
    \/ ConfigMalformed
    \/ ConfigNotUtf8
    \/ ConfigLoaded
    \/ ConfigNotObject
    \/ ChaptersEmpty
    \/ ChaptersNotSized
    \/ ChaptersFound
    \/ OpenOutput
    \/ SiteInfoNotObject
    \/ WriteHeader
    \/ EntryNotString
    \/ EntryMissing
    \/ ReadUtf8Ok
    \/ ReadUtf8DecodeError
    \/ ReadUtf8OtherError
    \/ ReadGbkOk
    \/ ReadGbkFail
    \/ LoopExit
    \/ PrintSummary

\* One run of the script.
Spec == Init /\ [][Next]_vars

\* One run that keeps running: the script is sequential and nothing suspends it.
FairSpec == Spec /\ WF_vars(Next)

\* Two runs in succession.
InitTwice == Init /\ Len(cfg.chapters) <= FirstRunChapters /\ ~outExists

NextTwice == Next \/ RunAgain

SpecTwice == InitTwice /\ [][NextTwice]_vars

----------------------------------------------------------------------------
(* What the claims speak about. *)

\* The section markers of an output: the heading or provenance comment that
\* follows each rule.
IsMarker(w) == w.k \in {"comment", "missing_heading", "error_heading"}

Markers(out) == SelectSeq(out, IsMarker)

IsRule(w) == w.k = "rule"

Rules(out) == SelectSeq(out, IsRule)

\* The manifest entries whose iteration has ended.
Processed == IF countersBound THEN index - 1 ELSE 0

\* The run went through the loop and the summary.
Completed == pc = "exited" /\ raised = "none" /\ outOpened

Last(s) == s[Len(s)]

KindOf(name) == fs[name].kind

----------------------------------------------------------------------------
\* C1: a completed run has written exactly N sections, N the length of the
\* manifest, and the i-th section belongs to the i-th manifest entry.
C1_ExactlyNSections ==
    Completed =>
        /\ Len(Markers(outFile)) = Len(render_order)
        /\ Len(Rules(outFile)) = Len(render_order)
        /\ \A i \in 1..Len(Markers(outFile)) :
              i <= Len(render_order) /\ Markers(outFile)[i].f = render_order[i]

----------------------------------------------------------------------------
\* The fatal setup errors of the claim, in the order the code checks them.
SetupError ==
    \/ ~dirExists
    \/ cfg.kind \in {"missing", "malformed"}
    \/ cfg.kind \in {"no_chapters", "ok"} /\ cfg.chapters = <<>>

SetupMessage ==
    IF ~dirExists THEN "error_no_content_dir"
    ELSE IF cfg.kind = "missing" THEN "error_no_config"
    ELSE IF cfg.kind = "malformed" THEN "error_bad_config"
    ELSE "warning_chapters_empty"

\* C2: in a run with a fatal setup error the output file is never opened,
\* created, truncated or written and no counter is assigned, and the run
\* returns with the message of the first failing check (content directory,
\* then configuration, then chapters).
C2_SetupErrorLeavesOutput ==
    SetupError =>
        /\ ~outOpened /\ ~outOpen
        /\ <<outExists, outFile>> = outAtStart
        /\ ~countersBound
        /\ success_count = 0 /\ missing_count = 0 /\ error_count = 0
        /\ pc \in {"start", "config", "chapters", "exited"}
        /\ pc = "exited" =>
              /\ exitStatus = 0 /\ raised = "none"
              /\ stdout = <<P(SetupMessage, 0, "")>>

C2_Witness ==
    /\ pc = "exited"
    /\ dirExists
    /\ cfg.kind = "ok"
    /\ cfg.chapters = <<>>
    /\ outAtStart = <<TRUE, StaleOutput>>
    /\ outFile = StaleOutput

----------------------------------------------------------------------------
\* C3: the run never ends with an uncaught exception: whenever the process
\* has exited, its status is 0.
C3_NeverRaises ==
    pc = "exited" => exitStatus = 0 /\ raised = "none"

----------------------------------------------------------------------------
\* What a step does when the file of the entry at hand does not exist.
C4_MissingStep ==
    (InLoop /\ filename \in Files /\ KindOf(filename) = "absent") =>
        /\ outFile' = outFile \o << W("rule", 0, "", <<>>),
                                    W("missing_heading", 0, filename, <<>>),
                                    W("missing_note", 0, "", <<>>) >>
        /\ missing_count' = missing_count + 1
        /\ success_count' = success_count
        /\ error_count' = error_count
        /\ readLog' = readLog
        /\ pc' = "loop" /\ index' = index + 1

\* C4: the iteration of an entry whose file does not exist appends exactly
\* one missing placeholder (rule, heading naming the file, note), adds 1 to
\* the missing counter, leaves the success and error counters alone and
\* opens no content file.
C4_MissingEntry == [][C4_MissingStep]_vars

C4_Witness ==
    /\ pc = "loop"
    /\ index = 2
    /\ KindOf(render_order[1]) = "absent"
    /\ missing_count = 1
    /\ Len(Markers(outFile)) = 1
    /\ readLog = <<>>

----------------------------------------------------------------------------
\* C5 as claimed: after the second of two runs the output file is what the
\* second run's inputs alone decide, whatever the first run did and also
\* when the second run stops at a fatal setup error.
C5_OutputOfSecondRunOnly ==
    (run = 2 /\ pc = "exited") =>
        <<outExists, outFile>> = FreshOutput(dirExists, cfg, fs, now)

\* C5 as amended: a second run that gets to open the output file leaves in
\* it what its own inputs decide; a second run that ends before that leaves
\* the file as the first run left it.
C5_SecondRunOverwritesOnceOpened ==
    (run = 2 /\ pc = "exited") =>
        IF ReachesOpen(dirExists, cfg)
        THEN <<outExists, outFile>> = FreshOutput(dirExists, cfg, fs, now)
        ELSE <<outExists, outFile>> = outAtStart

C5_Witness ==
    /\ run = 2
    /\ Completed
    /\ outAtStart[1]
    /\ Len(Markers(outAtStart[2])) = 1
    /\ Len(Markers(outFile)) = 2

----------------------------------------------------------------------------
\* What a step does for a file that only GBK decodes, and when GBK is read.
C6_GbkStep ==
    /\ (InLoop /\ filename \in Files /\ KindOf(filename) = "gbk") =>
          /\ outFile' = outFile
          /\ <<success_count, missing_count, error_count>>' =
                <<success_count, missing_count, error_count>>
          /\ readLog' = Append(readLog, <<index, filename, "utf-8">>)
          /\ index' = index
    /\ (pc = "gbk" /\ KindOf(filename) = "gbk") =>
          /\ outFile' = outFile \o << W("rule", 0, "", <<>>),
                                      W("comment", index, filename, <<>>),
                                      W("content", 0, "", Strip(fs[filename].raw)),
                                      W("blank", 0, "", <<>>) >>
          /\ success_count' = success_count + 1
          /\ missing_count' = missing_count
          /\ error_count' = error_count
          /\ index' = index + 1
    /\ (readLog' # readLog /\ Last(readLog')[3] = "gbk") =>
          /\ readLog # <<>>
          /\ Last(readLog) = <<index, filename, "utf-8">>
          /\ readLog' = Append(readLog, <<index, filename, "gbk">>)
          /\ Last(stdout).m = "encoding_error"
          /\ KindOf(filename) \notin {"utf8", "absent"}

\* C6: for a file that fails UTF-8 decoding and decodes under GBK, the
\* UTF-8 attempt writes and counts nothing, and the GBK read appends exactly
\* one content section (rule, provenance comment with the entry's index and
\* filename, stripped content, blank lines) and adds 1 to the success
\* counter only; a GBK read happens only right after the UTF-8 decode failure
\* of the same entry, never for a file that decodes as UTF-8 or is absent.
C6_GbkFallback == [][C6_GbkStep]_vars

C6_Witness ==
    /\ pc = "loop"
    /\ index = 3
    /\ KindOf(render_order[1]) = "absent"
    /\ KindOf(render_order[2]) = "gbk"
    /\ success_count = 1
    /\ Last(Markers(outFile)) = W("comment", 2, render_order[2], <<>>)
    /\ readLog = << <<2, render_order[2], "utf-8">>, <<2, render_order[2], "gbk">> >>

----------------------------------------------------------------------------
Occurrences(name, k) == Cardinality({p \in 1..k : render_order[p] = name})

SectionsOf(name, m) == Cardinality({j \in 1..Len(m) : m[j].f = name})

\* C7: at every point of the loop each processed occurrence of a filename
\* has its own section and its own counter increment, the sections stand in
\* manifest order, and a provenance comment carries the manifest position of
\* its occurrence.
C7_EveryOccurrenceOwnSection ==
    countersBound =>
        LET m == Markers(outFile) IN
        /\ \A name \in Files : SectionsOf(name, m) = Occurrences(name, Processed)
        /\ success_count + missing_count + error_count = Processed
        /\ \A j \in 1..Len(m) :
              /\ j <= Processed
              /\ m[j].f = render_order[j]
              /\ m[j].k = "comment" => m[j].i = j

----------------------------------------------------------------------------
\* What a step does when both decodes fail, and when the read fails otherwise.
C8_FailureStep ==
    /\ (InLoop /\ filename \in Files /\ KindOf(filename) = "binary") =>
          /\ outFile' = outFile
          /\ <<success_count, missing_count, error_count>>' =
                <<success_count, missing_count, error_count>>
          /\ index' = index
    /\ (pc = "gbk" /\ KindOf(filename) = "binary") =>
          /\ outFile' = outFile
          /\ error_count' = error_count + 1
          /\ success_count' = success_count
          /\ missing_count' = missing_count
          /\ index' = index + 1
    /\ (InLoop /\ filename \in Files /\ KindOf(filename) = "unreadable") =>
          /\ outFile' = outFile \o << W("rule", 0, "", <<>>),
                                      W("error_heading", 0, filename, <<>>),
                                      W("error_note", 0, "", <<"OSError">>) >>
          /\ error_count' = error_count + 1
          /\ success_count' = success_count
          /\ missing_count' = missing_count
          /\ index' = index + 1

\* C8: when the UTF-8 decode and the GBK retry both fail, the entry adds 1
\* to the error counter only and writes nothing to the output file; any
\* other exception of the UTF-8 read appends one error placeholder (rule,
\* heading naming the file, note with the exception text) and adds 1 to the
\* error counter only.
C8_ReadFailures == [][C8_FailureStep]_vars

C8_Witness ==
    /\ pc = "loop"
    /\ index = 3
    /\ KindOf(render_order[1]) = "binary"
    /\ KindOf(render_order[2]) = "unreadable"
    /\ error_count = 2
    /\ Len(outFile) = Len(Header(cfg.siteInfo, now)) + 3
    /\ Markers(outFile) = << W("error_heading", 0, render_order[2], <<>>) >>

----------------------------------------------------------------------------
ManifestOfFilenames == \A i \in 1..Len(render_order) : render_order[i] \in Files

IsProcessLine(l) == l.m = "process"

\* Every entry was processed exactly once, in manifest order.
ProcessedAllInOrder ==
    SelectSeq(stdout, IsProcessLine) =
        [i \in 1..Len(render_order) |-> P("process", i, render_order[i])]

\* The summary is the last thing printed.
SummaryPrinted ==
    /\ Len(stdout) >= 5
    /\ stdout[Len(stdout) - 4] = P("summary_total", Len(render_order), "")
    /\ Last(stdout) = P("summary_output", 0, "merged_output.md")

Finished ==
    /\ Completed
    /\ exitStatus = 0
    /\ index = Len(render_order) + 1
    /\ ~outOpen
    /\ ProcessedAllInOrder
    /\ SummaryPrinted

\* C9: once the run is in the loop over a manifest of filenames, whatever
\* way each entry ends (missing, decoded, decoded by the fallback, both
\* decodes failed, read failed), every entry is processed exactly once in
\* order, the loop ends after N entries, the output file is closed and the
\* summary is printed last.
C9_FailuresNeverAbort ==
    (pc = "loop" /\ ManifestOfFilenames) ~> Finished

C9_Witness ==
    /\ Finished
    /\ Len(render_order) = 2
    /\ KindOf(render_order[1]) = "unreadable"
    /\ KindOf(render_order[2]) = "binary"
    /\ error_count = 2

----------------------------------------------------------------------------
C10_Sum ==
    countersBound =>
        /\ success_count >= 0 /\ missing_count >= 0 /\ error_count >= 0
        /\ success_count + missing_count + error_count = Processed
        /\ Completed =>
              LET n == Len(stdout) IN
              /\ stdout[n - 4] = P("summary_total", Len(render_order), "")
              /\ stdout[n - 3].m = "summary_success"
              /\ stdout[n - 2].m = "summary_missing"
              /\ stdout[n - 1].m = "summary_error"
              /\ stdout[n - 3].i + stdout[n - 2].i + stdout[n - 1].i
                    = Len(render_order)

C10_Step ==
    countersBound =>
        /\ success_count' >= success_count
        /\ missing_count' >= missing_count
        /\ error_count' >= error_count
        /\ (success_count' + missing_count' + error_count')
              - (success_count + missing_count + error_count) = index' - index
        /\ index' - index \in {0, 1}

\* C10: the three counters never decrease, every processed entry has added
\* exactly 1 to exactly one of them, so that after k entries their sum is k,
\* and the three numbers of the printed summary add up to the total N.
C10_CounterInvariant == []C10_Sum /\ [][C10_Step]_vars

C10_Witness ==
    /\ Completed
    /\ Len(render_order) = 2
    /\ success_count = 1
    /\ error_count = 1
    /\ KindOf(render_order[1]) = "binary"

====
